---------------------------- MODULE Spec2Model ----------------------------
(***************************************************************************)
(* Model of crust1/models.py: the CrustModel class, its coordinate-to-index*)
(* function _get_index and its point query get_point.                      *)
(*                                                                         *)
(* Numbers.  Coordinates are Python floats (IEEE-754 binary64).  They are  *)
(* modelled as integers counting units of 1/Scale degree, the unit being   *)
(* the spacing of the floats of the binade [64, 128); the floats of        *)
(* [128, 256) are then the multiples of 2 units, those of [256, 512) the   *)
(* multiples of 4 units, and so on.  Every float operation rounds its exact*)
(* result to the nearest float, ties to even (FRound).  binary64 is the    *)
(* case Scale = 2^46.  Elevations, velocities and densities are counted in *)
(* hundredths (the data files carry two decimals); their differences are   *)
(* taken exactly, the claims being about the thickness as computed.        *)
(*                                                                         *)
(* Arrays.  A (180, 360, 9) grid is represented by the 9-vector of its     *)
(* background cells (fill) and the 9-vectors of a few distinguished cells  *)
(* (at); GridCell reads it with numpy's indexing rules.                    *)
(***************************************************************************)
EXTENDS Integers, Sequences, FiniteSets, TLC

(* ---------------------------- bounds ---------------------------------- *)

\* units per degree (resolution of the modelled floats near 90 degrees)
Scale == 8

\* longitudes are tried up to this many full turns away from [-180, 180]
MaxTurns == 2

(* ------------------------ program constants --------------------------- *)

NLat == 180

NLon == 360

NLayers == 9

\* the threshold 0.01 of the inclusion test, in hundredths
MinThickness == 1

LayerNames ==
  << "water", "ice", "upper_sediments", "middle_sediments", "lower_sediments",
     "upper_crust", "middle_crust", "lower_crust", "mantle" >>

(* --------------------------- float model ------------------------------ *)

Abs(x) == IF x < 0 THEN -x ELSE x

Deg(d) == d * Scale

RECURSIVE UlpFrom(_, _, _)
UlpFrom(a, lim, u) == IF a < lim THEN u ELSE UlpFrom(a, 2 * lim, 2 * u)

\* spacing of the floats around x, in units
Ulp(x) == UlpFrom(Abs(x), Deg(128), 1)

\* round-to-nearest, ties-to-even
FRound(x) ==
  LET u  == Ulp(x)
      lo == (x \div u) * u
      r  == x - lo
  IN  IF r = 0 THEN x
      ELSE IF 2 * r < u THEN lo
      ELSE IF 2 * r > u THEN lo + u
      ELSE IF (lo \div u) % 2 = 0 THEN lo ELSE lo + u

FAdd(x, y) == FRound(x + y)

FSub(x, y) == FRound(x - y)

\* math.floor of a float, as an int
Floor(x) == x \div Scale

(* ----------------------------- _get_index ----------------------------- *)

NormLon(lon) ==
  LET lon1 == IF lon > Deg(180) THEN FSub(lon, Deg(360)) ELSE lon
  IN  IF lon1 < -Deg(180) THEN FAdd(lon1, Deg(360)) ELSE lon1

get_index(lat, lon) ==
  LET ilat == Floor(FSub(Deg(90), lat))
      ilon == Floor(FAdd(Deg(180), NormLon(lon)))
  IN  << ilat, ilon >>

(* --------------------------- numpy indexing --------------------------- *)

\* an index is accepted on an axis of length n iff -n <= i < n
IndexInBounds(i, n) == -n <= i /\ i < n

\* a negative index counts from the end of the axis
WrapIndex(i, n) == IF i < 0 THEN i + n ELSE i

CellInBounds(ilat, ilon) == IndexInBounds(ilat, NLat) /\ IndexInBounds(ilon, NLon)

\* grid[ilat, ilon] for an accepted index pair: the 9-vector of that cell
GridCell(grid, ilat, ilon) ==
  LET c == << WrapIndex(ilat, NLat), WrapIndex(ilon, NLon) >>
  IN  IF c \in DOMAIN grid.at THEN grid.at[c] ELSE grid.fill

(* ----------------------------- thickness ------------------------------ *)

\* np.ediff1d(ary, to_end): the consecutive differences of ary, followed by
\* the values of to_end
ediff1d(ary, to_end) ==
  [ i \in 1 .. (Len(ary) - 1) |-> ary[i + 1] - ary[i] ] \o to_end

np_abs(v) == [ i \in 1 .. Len(v) |-> Abs(v[i]) ]

\* variant: the zero is appended to the boundaries, before differencing
ThicknessZeroBoundary(b) == np_abs(ediff1d(b \o << 0 >>, << >>))

Thickness(b) == np_abs(ediff1d(b, << 0 >>))

(* ----------------------------- get_point ------------------------------ *)

\* variant: the comparison with the threshold is strict
IncludeLayerStrict(include_no_thickness, layer_thickness, layer) ==
  ((include_no_thickness = FALSE) /\ (layer_thickness > MinThickness))
    \/ layer = "mantle"

\* the test of line 135
IncludeLayer(include_no_thickness, layer_thickness, layer) ==
  ((include_no_thickness = FALSE) /\ (layer_thickness >= MinThickness))
    \/ layer = "mantle"

\* variant: vs is read from the vp array
LayerRecordVpTwice(self, ilat, ilon, thickness, i) ==
  [ vp              |-> GridCell(self.vp, ilat, ilon)[i],
    vs              |-> GridCell(self.vp, ilat, ilon)[i],
    rho             |-> GridCell(self.rho, ilat, ilon)[i],
    layer_thickness |-> thickness[i],
    bnd             |-> GridCell(self.bnds, ilat, ilon)[i] ]

LayerRecord(self, ilat, ilon, thickness, i) ==
  [ vp              |-> GridCell(self.vp, ilat, ilon)[i],
    vs              |-> GridCell(self.vs, ilat, ilon)[i],
    rho             |-> GridCell(self.rho, ilat, ilon)[i],
    layer_thickness |-> thickness[i],
    bnd             |-> GridCell(self.bnds, ilat, ilon)[i] ]

\* the loop of lines 128-151; a dict is the sequence of its entries in
\* insertion order (the layer names are distinct, so every store appends)
RECURSIVE LayerLoop(_, _, _, _, _, _, _)
LayerLoop(self, ilat, ilon, thickness, include_no_thickness, i, model_layers) ==
  IF i > Len(self.layer_names) THEN model_layers
  ELSE LET layer == self.layer_names[i]
           next  == IF IncludeLayer(include_no_thickness, thickness[i], layer)
                    THEN Append(model_layers,
                                [ key   |-> layer,
                                  value |-> LayerRecord(self, ilat, ilon, thickness, i) ])
                    ELSE model_layers
       IN  LayerLoop(self, ilat, ilon, thickness, include_no_thickness, i + 1, next)

\* variant: the absolute value is taken in place, in the cell of self.bnds
SelfAbsInPlace(self, ilat, ilon) ==
  LET c == << WrapIndex(ilat, NLat), WrapIndex(ilon, NLon) >>
      v == np_abs(GridCell(self.bnds, ilat, ilon))
  IN  [ self EXCEPT !.bnds.at =
          [ k \in (DOMAIN self.bnds.at) \cup { c } |->
              IF k = c THEN v ELSE self.bnds.at[k] ] ]

\* the model object after a call of get_point: no statement of get_point
\* assigns to self or writes into an array (ediff1d and np.abs return new
\* arrays)
SelfAfterQuery(self, ilat, ilon) == self

\* get_point(lat, lon, include_no_thickness): the object afterwards, the
\* locals ilat and ilon, and either the exception raised or the dict returned
get_point(self, lat, lon, include_no_thickness) ==
  LET ix   == get_index(lat, lon)
      ilat == ix[1]
      ilon == ix[2]
  IN  IF ~CellInBounds(ilat, ilon)
      THEN [ self |-> self, index |-> ix, raised |-> "IndexError",
             model_layers |-> << >> ]
      ELSE [ self   |-> SelfAfterQuery(self, ilat, ilon),
             index  |-> ix,
             raised |-> "",
             model_layers |->
               LayerLoop(self, ilat, ilon,
                         Thickness(GridCell(self.bnds, ilat, ilon)),
                         include_no_thickness, 1, << >>) ]

(* ------------------------- data and inputs ---------------------------- *)

\* boundary vectors (top elevation of each layer), as the data files may
\* hold them: an ocean cell with a sediment layer of exactly 0.01, a
\* continental cell, a cell all of whose boundaries are 0, and a cell
\* above sea level throughout
BndProfiles ==
  << << 0, -400, -400, -400, -401, -401, -600, -800, -1100 >>,
     << 150, 150, 150, 100, 100, 50, -1000, -2500, -4000 >>,
     << 0, 0, 0, 0, 0, 0, 0, 0, 0 >>,
     << 520, 520, 320, 319, 319, 300, 200, 100, 40 >> >>

\* the cells given their own content
SpecialCells == << << 0, 0 >>, << 179, 0 >>, << 90, 300 >>, << 179, 300 >> >>

CellTag(c) ==
  IF \E k \in 1 .. Len(SpecialCells) : SpecialCells[k] = c
  THEN CHOOSE k \in 1 .. Len(SpecialCells) : SpecialCells[k] = c
  ELSE 0

SpecialSet == { SpecialCells[k] : k \in 1 .. Len(SpecialCells) }

\* a grid whose cell with tag t holds vec[t]
MakeGrid(vec) == [ fill |-> vec[0], at |-> [ c \in SpecialSet |-> vec[CellTag(c)] ] ]

\* the four arrays of data set d
BndsData(d) ==
  MakeGrid([ t \in 0 .. Len(SpecialCells) |->
             BndProfiles[((d + t) % Len(BndProfiles)) + 1] ])

VpData(d) ==
  MakeGrid([ t \in 0 .. Len(SpecialCells) |->
             [ i \in 1 .. NLayers |-> 150 + 70 * i + t + d ] ])

VsData(d) ==
  MakeGrid([ t \in 0 .. Len(SpecialCells) |->
             [ i \in 1 .. NLayers |-> 40 * i + t + d ] ])

RhoData(d) ==
  MakeGrid([ t \in 0 .. Len(SpecialCells) |->
             [ i \in 1 .. NLayers |-> 100 + 25 * i + t + d ] ])

\* latitudes asked for: the poles, their float neighbours, values beyond
\* the poles and an interior point
Lats ==
  { FRound(x) : x \in { Deg(90), Deg(90) + 1, Deg(272), Deg(0),
                        -Deg(90) + 1, -Deg(90) + 2, -Deg(90) } }

\* longitudes asked for: the date line, its float neighbours and an interior
\* point, each also shifted by whole turns
BaseLons == { -Deg(180), -Deg(180) + 2, Deg(120), Deg(180) - 2 }

Lons == { FRound(b + k * Deg(360)) : b \in BaseLons, k \in (-MaxTurns) .. MaxTurns }

(* ------------------------------- state -------------------------------- *)

VARIABLES
  vp, vs, rho, bnds,   \* self.vp, self.vs, self.rho, self.bnds
  layer_names,         \* self.layer_names
  pc,                  \* "constructed", or how the last get_point ended:
                       \* "returned" or "raised"
  args,                \* arguments of the last get_point
  index,               \* its locals (ilat, ilon)
  model_layers,        \* the dict it returned
  prevPc,              \* how the call before the last one ended
  probe,               \* a query whose first outcome is remembered
  probePc, probeLayers, \* that outcome ("unseen" until it is asked)
  probeAgain           \* whether the probe has been asked more than once

vars == << vp, vs, rho, bnds, layer_names, pc, args, index, model_layers,
           prevPc, probe, probePc, probeLayers, probeAgain >>

Self ==
  [ vp |-> vp, vs |-> vs, rho |-> rho, bnds |-> bnds, layer_names |-> layer_names ]

\* the queries whose outcome is followed through a run: one answered from
\* the cell it names, one refused, one just past the north pole
Probes ==
  << [ lat |-> Deg(0), lon |-> Deg(120), include_no_thickness |-> FALSE ],
     [ lat |-> -Deg(90), lon |-> Deg(120), include_no_thickness |-> FALSE ],
     [ lat |-> Deg(90) + 1, lon |-> -Deg(180), include_no_thickness |-> FALSE ] >>

\* the state after construction, for data set d
Constructed(d) ==
  /\ vp = VpData(d)
  /\ vs = VsData(d)
  /\ rho = RhoData(d)
  /\ bnds = BndsData(d)
  /\ layer_names = LayerNames
  /\ pc = "constructed"
  /\ args = [ lat |-> 0, lon |-> 0, include_no_thickness |-> FALSE ]
  /\ index = << 0, 0 >>
  /\ model_layers = << >>
  /\ prevPc = "constructed"
  /\ probePc = "unseen"
  /\ probeLayers = << >>
  /\ probeAgain = FALSE

\* the data sets a model is constructed from
DataSets == { 1, 3 }

Init ==
  /\ \E d \in DataSets : Constructed(d)
  /\ probe = Probes[1]

\* one call of get_point on the constructed object
Call(lat, lon, include_no_thickness) ==
  LET r == get_point(Self, lat, lon, include_no_thickness)
  IN  /\ vp' = r.self.vp
      /\ vs' = r.self.vs
      /\ rho' = r.self.rho
      /\ bnds' = r.self.bnds
      /\ layer_names' = r.self.layer_names
      /\ pc' = IF r.raised = "" THEN "returned" ELSE "raised"
      /\ args' = [ lat |-> lat, lon |-> lon,
                   include_no_thickness |-> include_no_thickness ]
      /\ index' = r.index
      /\ model_layers' = r.model_layers

GetPoint(lat, lon, include_no_thickness) ==
  /\ Call(lat, lon, include_no_thickness)
  /\ UNCHANGED << prevPc, probe, probePc, probeLayers, probeAgain >>

Next ==
  \E lat \in Lats, lon \in Lons, include_no_thickness \in BOOLEAN :
    GetPoint(lat, lon, include_no_thickness)

Spec == Init /\ [][Next]_vars

(* ---------------- sequences of calls, with an observer ---------------- *)

\* the queries of a sequence: the probes and their include_no_thickness twins
SeqArgs ==
  { [ Probes[k] EXCEPT !.include_no_thickness = b ] :
      k \in 1 .. Len(Probes), b \in BOOLEAN }

InitSeq ==
  /\ \E d \in DataSets : Constructed(d)
  /\ probe \in { Probes[k] : k \in 1 .. Len(Probes) }

\* a call whose outcome the observer compares with the first outcome of the
\* same query
GetPointObserved(a) ==
  /\ Call(a.lat, a.lon, a.include_no_thickness)
  /\ prevPc' = pc
  /\ probe' = probe
  /\ IF probePc = "unseen" /\ a = probe
     THEN probePc' = pc' /\ probeLayers' = model_layers'
     ELSE UNCHANGED << probePc, probeLayers >>
  /\ probeAgain' = (probeAgain \/ (probePc # "unseen" /\ a = probe))

NextSeq == \E a \in SeqArgs : GetPointObserved(a)

SpecSeq == InitSeq /\ [][NextSeq]_vars

(* ------------------------------ claims -------------------------------- *)

Queried == pc # "constructed"

Returned == pc = "returned"

Keys == { model_layers[k].key : k \in 1 .. Len(model_layers) }

\* the bucket pair of the last call names a cell of the grid
InGrid == index[1] \in 0 .. (NLat - 1) /\ index[2] \in 0 .. (NLon - 1)

\* the boundary vector of the cell the last call read
Bnd == GridCell(bnds, index[1], index[2])

\* position of a layer name in the nine-layer list
Pos(name) == CHOOSE i \in 1 .. NLayers : LayerNames[i] = name

\* C1: with include_no_thickness = true, get_point on an in-range cell
\* returns all nine layer names, whatever the thickness of each layer.
C1_AllNineLayers ==
  (Returned /\ InGrid /\ args.include_no_thickness)
    => \A i \in 1 .. NLayers : LayerNames[i] \in Keys

\* C2: with include_no_thickness = false, on an in-range cell, a non-mantle
\* layer is returned if and only if its thickness is at least 0.01, and
\* every returned non-mantle layer carries a layer_thickness of at least 0.01.
C2_ThicknessFilter ==
  (Returned /\ InGrid /\ ~args.include_no_thickness)
    => /\ \A i \in 1 .. (NLayers - 1) :
            (LayerNames[i] \in Keys) <=> (Abs(Bnd[i] - Bnd[i + 1]) >= MinThickness)
       /\ \A k \in 1 .. Len(model_layers) :
            model_layers[k].key # "mantle"
              => model_layers[k].value.layer_thickness >= MinThickness

\* a filtered answer that keeps a layer of exactly 0.01 and drops another
C2_Witness ==
  /\ Returned /\ InGrid /\ ~args.include_no_thickness
  /\ \E i \in 1 .. (NLayers - 1) :
        LayerNames[i] \in Keys /\ Abs(Bnd[i] - Bnd[i + 1]) = MinThickness
  /\ \E i \in 1 .. (NLayers - 1) : LayerNames[i] \notin Keys

\* C3: for lat in [-90, 90] and lon in [-180, 180], endpoints included,
\* get_point returns a mapping that contains "mantle".
C3_ClosedRangeAnswered ==
  ( /\ Queried
    /\ -Deg(90) <= args.lat /\ args.lat <= Deg(90)
    /\ -Deg(180) <= args.lon /\ args.lon <= Deg(180) )
    => (Returned /\ "mantle" \in Keys)

\* the outcome of a call, as the caller sees it
Outcome(r) == << r.raised, r.model_layers >>

LonInRange(lon) == -Deg(180) <= lon /\ lon <= Deg(180)

\* C4: get_point(lat, lon) and get_point(lat, lon -/+ 360) have the same
\* outcome whenever the shifted longitude is in [-180, 180] after at most
\* one correction pass, the pair -180 / 180 included.
C4_FullTurnSameOutcome ==
  Queried =>
    \A s \in { FSub(args.lon, Deg(360)), FAdd(args.lon, Deg(360)) } :
      LonInRange(NormLon(s))
        => Outcome(get_point(Self, args.lat, s, args.include_no_thickness))
             = << IF Returned THEN "" ELSE "IndexError", model_layers >>

\* C5: a bucket pair outside [0, 180) x [0, 360), negative buckets
\* included, makes get_point fail with an index error.
C5_OutsideGridRaises ==
  (Queried /\ ~InGrid) => pc = "raised"

\* the layer_thickness every returned record must carry when the thickness
\* of the last layer is last
ThicknessAsReturned(last) ==
  \A k \in 1 .. Len(model_layers) :
    LET i == Pos(model_layers[k].key)
    IN  model_layers[k].value.layer_thickness
          = IF i < NLayers THEN Abs(Bnd[i] - Bnd[i + 1]) ELSE last

\* C6 as stated: thickness[i] = |b[i] - b[i+1]| for the first eight layers
\* and the mantle's layer_thickness is |b[8] - 0|.
C6_MantleThicknessIsTopBoundary ==
  Returned => ThicknessAsReturned(Abs(Bnd[NLayers]))

\* C6 as amended: thickness[i] = |b[i] - b[i+1]| for the first eight layers
\* and the mantle's layer_thickness is 0 (the zero is appended to the
\* differences, not to the boundaries).
C6_MantleThicknessIsZero ==
  Returned => ThicknessAsReturned(0)

\* an answer with several layers from a cell whose mantle top is not at 0
C6_Witness ==
  Returned /\ InGrid /\ Bnd[NLayers] # 0 /\ Len(model_layers) >= 3

\* C7: _get_index maps (90, -180) to (0, 0) and (-90, 180) to (180, 0).
C7_CornerBuckets ==
  Queried =>
    /\ (args.lat = Deg(90) /\ args.lon = -Deg(180)) => index = << 0, 0 >>
    /\ (args.lat = -Deg(90) /\ args.lon = Deg(180)) => index = << 180, 0 >>

\* C8: no call of get_point, answered or refused, changes the four grids or
\* the layer-name list, and a query asked again has the outcome it had the
\* first time.
C8_ModelUnchanged ==
  /\ [][ /\ vp' = vp /\ vs' = vs /\ rho' = rho /\ bnds' = bnds
         /\ layer_names' = layer_names ]_vars
  /\ []( (Queried /\ args = probe /\ probePc # "unseen")
           => (pc = probePc /\ model_layers = probeLayers) )

\* the probe answered, a later query refused, the probe asked again right
\* after it
C8_Witness ==
  /\ Returned /\ args = probe /\ probeAgain /\ prevPc = "raised"
  /\ \E k \in 1 .. Len(model_layers) : model_layers[k].value.bnd < 0

\* C9: every returned record holds the values of the four grids at the
\* queried bucket pair and the layer's position, with the thickness of that
\* position; the keys follow the canonical layer order and mantle is last.
C9_RecordsAndOrder ==
  Returned =>
    /\ \A k \in 1 .. Len(model_layers) :
         /\ model_layers[k].key \in { LayerNames[i] : i \in 1 .. NLayers }
         /\ LET i == Pos(model_layers[k].key)
            IN  model_layers[k].value =
                  [ vp  |-> GridCell(vp, index[1], index[2])[i],
                    vs  |-> GridCell(vs, index[1], index[2])[i],
                    rho |-> GridCell(rho, index[1], index[2])[i],
                    layer_thickness |-> Thickness(Bnd)[i],
                    bnd |-> Bnd[i] ]
    /\ \A k \in 1 .. (Len(model_layers) - 1) :
         Pos(model_layers[k].key) < Pos(model_layers[k + 1].key)
    /\ Len(model_layers) >= 1
    /\ model_layers[Len(model_layers)].key = "mantle"

\* an answer with several layers
C9_Witness ==
  Returned /\ InGrid /\ Len(model_layers) >= 4

\* C10: for lat in (-90, 90] and lon in [-180, 180), the bucket pair is in
\* [0, 179] x [0, 359] and get_point returns a mapping.
C10_HalfOpenRangeInGrid ==
  ( /\ Queried
    /\ -Deg(90) < args.lat /\ args.lat <= Deg(90)
    /\ -Deg(180) <= args.lon /\ args.lon < Deg(180) )
    => (InGrid /\ Returned)

=============================================================================
